---- MODULE Spec2Model ----
(***************************************************************************)
(* gomire: bulk image resizer.  Model of cmd (second revision of the      *)
(* command file, src/unnamed/part_000 lines 252-529): validateFlags,      *)
(* listFilesToBeCopies, cmdMain and the concurrent copyFilesWithProgress.  *)
(*                                                                         *)
(* Strings are sequences of one-character strings, so that the string     *)
(* functions the code calls (Contains, Replace, Split, ToLower, Ext,       *)
(* Clean, Abs, Join, Atoi) are computed character by character.            *)
(***************************************************************************)
EXTENDS Integers, Sequences, FiniteSets, TLC

(***************************************************************************)
(* Bounds                                                                  *)
(***************************************************************************)
\* Largest number of image files "<k>.png" placed directly under the input root.
MaxImages == 1
\* Largest number of operations handed to copyFilesWithProgress on its own.
MaxOps == 3

\* The largest number of operations of a dispatched batch whose images all
\* lie in one sub-directory, so that the tasks race to make its counterpart.
MaxSubOps == 2

(***************************************************************************)
(* String literals                                                         *)
(***************************************************************************)
sSlash == <<"/">>
sDot == <<".">>
sComma == <<",">>
sX == <<"x">>
sJpeg == <<"j", "p", "e", "g">>
sJpg == <<"j", "p", "g">>
sTiff == <<"t", "i", "f", "f">>
sTif == <<"t", "i", "f">>
sPng == <<"p", "n", "g">>
sGif == <<"g", "i", "f">>
sBmp == <<"b", "m", "p">>

\* The process's working directory, against which relative paths resolve.
Cwd == <<"/", "w">>

UpperChars == <<"A", "B", "C", "D", "E", "F", "G", "H", "I", "J", "K", "L", "M",
                "N", "O", "P", "Q", "R", "S", "T", "U", "V", "W", "X", "Y", "Z">>
LowerChars == <<"a", "b", "c", "d", "e", "f", "g", "h", "i", "j", "k", "l", "m",
                "n", "o", "p", "q", "r", "s", "t", "u", "v", "w", "x", "y", "z">>
DigitChars == <<"0", "1", "2", "3", "4", "5", "6", "7", "8", "9">>

(***************************************************************************)
(* Go standard library string functions, as the code uses them             *)
(***************************************************************************)
\* strings.Index: 1-based position of the first occurrence of sub in s,
\* 0 when there is none (the empty string occurs at position 1).
IndexOf(s, sub) ==
    LET hits == {i \in 1..(Len(s) - Len(sub) + 1) :
                    SubSeq(s, i, i + Len(sub) - 1) = sub}
    IN IF hits = {} THEN 0 ELSE CHOOSE i \in hits : \A j \in hits : i <= j

\* strings.Contains
Contains(s, sub) == IndexOf(s, sub) # 0

\* strings.Replace(s, old, new, 1)
ReplaceFirst(s, old, new) ==
    LET i == IndexOf(s, old)
    IN IF i = 0 THEN s
       ELSE SubSeq(s, 1, i - 1) \o new \o SubSeq(s, i + Len(old), Len(s))

\* strings.Replace(s, old, new, -1) for a non-empty old
RECURSIVE ReplaceAll(_, _, _)
ReplaceAll(s, old, new) ==
    LET i == IndexOf(s, old)
    IN IF i = 0 \/ old = <<>> THEN s
       ELSE SubSeq(s, 1, i - 1) \o new
            \o ReplaceAll(SubSeq(s, i + Len(old), Len(s)), old, new)

\* strings.Split(s, sep) for a non-empty sep
RECURSIVE Split(_, _)
Split(s, sep) ==
    LET i == IndexOf(s, sep)
    IN IF i = 0 THEN <<s>>
       ELSE <<SubSeq(s, 1, i - 1)>> \o Split(SubSeq(s, i + Len(sep), Len(s)), sep)

LowerChar(c) ==
    IF \E k \in 1..Len(UpperChars) : UpperChars[k] = c
    THEN LowerChars[CHOOSE k \in 1..Len(UpperChars) : UpperChars[k] = c]
    ELSE c

\* strings.ToLower
ToLower(s) == [i \in 1..Len(s) |-> LowerChar(s[i])]

IsSpaceChar(c) == c = " "

\* strings.TrimSpace
RECURSIVE TrimSpace(_)
TrimSpace(s) ==
    IF s = <<>> THEN s
    ELSE IF IsSpaceChar(Head(s)) THEN TrimSpace(Tail(s))
    ELSE IF IsSpaceChar(s[Len(s)]) THEN TrimSpace(SubSeq(s, 1, Len(s) - 1))
    ELSE s

IsDigitChar(c) == \E k \in 1..Len(DigitChars) : DigitChars[k] = c
DigitVal(c) == (CHOOSE k \in 1..Len(DigitChars) : DigitChars[k] = c) - 1

RECURSIVE DigitsVal(_)
DigitsVal(s) ==
    IF s = <<>> THEN 0
    ELSE DigitsVal(SubSeq(s, 1, Len(s) - 1)) * 10 + DigitVal(s[Len(s)])

\* strconv.Atoi: an optional sign followed by at least one decimal digit.
Atoi(s) ==
    LET signed == s # <<>> /\ Head(s) \in {"+", "-"}
        body == IF signed THEN Tail(s) ELSE s
        ok == body # <<>> /\ \A i \in 1..Len(body) : IsDigitChar(body[i])
    IN IF ~ok THEN [err |-> TRUE, val |-> 0]
       ELSE [err |-> FALSE,
             val |-> IF signed /\ Head(s) = "-" THEN 0 - DigitsVal(body)
                     ELSE DigitsVal(body)]

\* utils.IsStringEmpty
IsStringEmpty(s) == Len(TrimSpace(s)) = 0

(***************************************************************************)
(* path/filepath                                                           *)
(***************************************************************************)
IsAbs(p) == p # <<>> /\ Head(p) = "/"

RECURSIVE JoinComps(_)
JoinComps(cs) ==
    IF cs = <<>> THEN <<>>
    ELSE IF Len(cs) = 1 THEN cs[1]
    ELSE cs[1] \o sSlash \o JoinComps(Tail(cs))

\* The component stack of filepath.Clean: "" and "." are dropped, ".." pops a
\* component, is dropped at the root and is kept in front of a relative path.
RECURSIVE CleanComps(_, _, _)
CleanComps(cs, acc, rooted) ==
    IF cs = <<>> THEN acc
    ELSE LET c == Head(cs)
             dotdot == <<".", ".">>
         IN IF c = <<>> \/ c = sDot THEN CleanComps(Tail(cs), acc, rooted)
            ELSE IF c = dotdot
                 THEN IF acc # <<>> /\ acc[Len(acc)] # dotdot
                      THEN CleanComps(Tail(cs), SubSeq(acc, 1, Len(acc) - 1), rooted)
                      ELSE IF rooted THEN CleanComps(Tail(cs), acc, rooted)
                      ELSE CleanComps(Tail(cs), Append(acc, c), rooted)
            ELSE CleanComps(Tail(cs), Append(acc, c), rooted)

\* filepath.Clean
Clean(p) ==
    LET rooted == IsAbs(p)
        body == JoinComps(CleanComps(Split(p, sSlash), <<>>, rooted))
    IN IF rooted THEN sSlash \o body
       ELSE IF body = <<>> THEN sDot ELSE body

\* filepath.Join(a, b)
Join(a, b) ==
    IF a = <<>> THEN (IF b = <<>> THEN <<>> ELSE Clean(b))
    ELSE IF b = <<>> THEN Clean(a)
    ELSE Clean(a \o sSlash \o b)

\* filepath.Abs
Abs(p) == IF IsAbs(p) THEN Clean(p) ELSE Join(Cwd, p)

\* filepath.Dir: all but the last element of the path, cleaned.
Dir(p) ==
    LET slashes == {i \in 1..Len(p) : p[i] = "/"}
    IN IF slashes = {} THEN sDot
       ELSE Clean(SubSeq(p, 1, CHOOSE i \in slashes : \A j \in slashes : j <= i))

\* filepath.Ext: the suffix from the last dot of the last path element.
Ext(p) ==
    LET lastSlash == IF \E i \in 1..Len(p) : p[i] = "/"
                     THEN CHOOSE i \in 1..Len(p) :
                            p[i] = "/" /\ \A j \in (i + 1)..Len(p) : p[j] # "/"
                     ELSE 0
        dots == {i \in (lastSlash + 1)..Len(p) : p[i] = "."}
    IN IF dots = {} THEN <<>>
       ELSE SubSeq(p, CHOOSE i \in dots : \A j \in dots : j <= i, Len(p))

(***************************************************************************)
(* Command-line inputs and the file system the run starts from             *)
(***************************************************************************)
\* --input-dir values: absolute, with a trailing separator, relative,
\* relative with "./", and a directory that does not exist.
InputDirFlags ==
    { <<"/", "w", "/", "a">>,
      <<"/", "w", "/", "a", "/">>,
      <<"a">>,
      <<".", "/", "a">>,
      <<"/", "w", "/", "n">> }

\* --output-dir values: outside the input tree, inside it, equal to it, a
\* sibling whose name extends the input's, and a path that holds the input
\* path in its middle.
OutputDirFlags ==
    { <<"/", "w", "/", "o">>,
      <<"/", "w", "/", "a", "/", "o">>,
      <<"/", "w", "/", "a">>,
      <<"/", "w", "/", "a", "b">>,
      <<"/", "o", "/", "w", "/", "a">> }

\* --type values
FileTypeFlags ==
    { <<"p", "n", "g", ",", "j", "p", "g">>,
      <<"j", "p", "e", "g", ",", ".", "b", "m", "p">> }

\* --resolution values
ResolutionFlags ==
    { <<"2", "x", "3">>,
      <<" ", "2", "X", "3">>,
      <<"2">>,
      <<"2", "x", "a">>,
      <<"0", "x", "3">> }

\* Optional entries of the input tree besides the images "<k>.png":
\* "m" a file without extension, "s" a sub-directory holding "y.GIF",
\* "t" the file "t.txt", "u" a sub-directory "q" that cannot be read.
ExtraEntries == {"m", "s", "t", "u"}

\* The input tree lives at /w/a.
TreeRoot == <<"/", "w", "/", "a">>
SubDirPath == <<"/", "w", "/", "a", "/", "s">>
UnreadablePath == <<"/", "w", "/", "a", "/", "q">>

ImageName(k) == <<DigitChars[k + 1]>> \o sDot \o sPng

\* All directories on the path to p, p included.
AncestorsOf(p) ==
    {sSlash} \cup {SubSeq(p, 1, i) : i \in {j \in 1..Len(p) : j = Len(p) \/ p[j + 1] = "/"}}

VARIABLES
    inputDir,     \* package variable inputDir (the flag value)
    outputDir,    \* package variable outputDir
    recursive,    \* package variable recursive
    verbose,      \* package variable verbose
    fileType,     \* package variable fileType
    fileTypes,    \* package variable fileTypes
    resolution,   \* package variable resolution
    nImages,      \* file system: number of images "<k>.png" under the root
    extras,       \* file system: which optional entries the input tree has
    dirs,         \* file system: the directories that exist (absolute paths)
    noPerm,       \* file system: the directories their owner cannot write into
    pc,           \* position of the main goroutine in cmdMain
    exitCode,     \* process exit status, -1 while the process runs
    crashed,      \* the process died of a runtime panic
    enumerated,   \* listFilesToBeCopies has started walking
    walkErr,      \* filepath.WalkDir returned an error
    mkdirFailed,  \* os.MkdirAll of the output directory returned an error
    files,        \* cmdMain's files / copyFilesWithProgress's fo
    next,         \* number of loop iterations copyFilesWithProgress has done
    wg,           \* sync.WaitGroup counter
    bar,          \* progress bar count
    errs,         \* copyFilesWithProgress's errs slice
    tpc,          \* per task: position in the goroutine body
    targ,         \* per task: index in fo of the operation it was given
    tsnap,        \* per task: the errs slice value its append has read
    tdir,         \* per operation: filepath.Dir(fo.targetPath) as an absolute path
    tmk,          \* per task: how os.MkdirAll went after its Stat found the directory missing
    runs,         \* per operation: number of processImage calls on it
    adds,         \* per task: number of bar.Add(1) calls it made
    failed,       \* tasks whose processImage returned an error
    stdout        \* what the process printed, in order

inputVars == <<inputDir, outputDir, recursive, verbose, fileType, fileTypes, resolution>>
fsVars == <<nImages, extras, dirs, noPerm>>
mainVars == <<pc, exitCode, crashed, enumerated, walkErr, mkdirFailed, files, next, stdout>>
taskVars == <<wg, bar, errs, tpc, targ, tsnap, tdir, tmk, runs, adds, failed>>
vars == <<inputVars, fsVars, mainVars, taskVars>>

supportedImgTypes == {sJpg, sPng, sGif, sTif, sBmp}

\* utils.PathExists for a directory path
PathExists(p, ds) == p \in ds

\* The images "<k>.png" as directory entries.
ImageEntries == [k \in 1..nImages |-> [name |-> ImageName(k), isDir |-> FALSE]]

\* os.ReadDir: the entries of a directory of the input tree, sorted by name.
\* The images lie directly under the root, or in the sub-directory s when
\* the tree has the entry "d".
ReadDir(absPath) ==
    IF absPath = TreeRoot
    THEN (IF "d" \in extras THEN <<>> ELSE ImageEntries)
         \o (IF "m" \in extras THEN <<[name |-> <<"m">>, isDir |-> FALSE]>> ELSE <<>>)
         \o (IF "u" \in extras THEN <<[name |-> <<"q">>, isDir |-> TRUE]>> ELSE <<>>)
         \o (IF extras \cap {"s", "d"} # {}
             THEN <<[name |-> <<"s">>, isDir |-> TRUE]>> ELSE <<>>)
         \o (IF "t" \in extras
             THEN <<[name |-> <<"t", ".", "t", "x", "t">>, isDir |-> FALSE]>> ELSE <<>>)
    ELSE IF absPath = SubDirPath
    THEN (IF "d" \in extras THEN ImageEntries ELSE <<>>)
         \o (IF "s" \in extras
             THEN <<[name |-> <<"y", ".", "G", "I", "F">>, isDir |-> FALSE]>> ELSE <<>>)
    ELSE <<>>

\* os.ReadDir fails on the unreadable directory.
ReadDirFails(absPath) == absPath = UnreadablePath /\ "u" \in extras

(***************************************************************************)
(* validateFlags                                                           *)
(***************************************************************************)
\* A nesting test that only catches the output directory being the input directory.
OutputNestedEqualOnly(out, in) == out = in

\* The nesting test of validateFlags: strings.Contains(outputDir, inputDir).
OutputNested(out, in) == Contains(out, in)

\* validateFlags' loop over strings.Split(fileType, ","): a non-blank entry
\* that does not start with a dot gets one.
NormalizeFileTypes(ft) ==
    LET parts == Split(ft, sComma)
    IN [i \in 1..Len(parts) |->
            IF IsStringEmpty(parts[i]) THEN parts[i]
            ELSE IF parts[i][1] # "." THEN sDot \o parts[i]
            ELSE parts[i]]

\* The two synonym replacements on fileType.
FoldSynonyms(ft) == ReplaceAll(ReplaceAll(ft, sJpeg, sJpg), sTiff, sTif)

\* The resolution flag after ToLower and TrimSpace.
NormalizeResolution(r) == TrimSpace(ToLower(r))

\* A process exit: os.Exit(code) after printing msg.
Exit(code, msg) ==
    /\ pc' = "exited"
    /\ exitCode' = code
    /\ stdout' = stdout \o msg

\* validateFlags.  Its first statement declares a local inputDir holding the
\* absolute path; the package variable inputDir keeps the flag value.
ValidateFlags ==
    /\ pc = "validate"
    /\ LET localInputDir == Abs(inputDir)
           out == Abs(outputDir)
       IN IF ~PathExists(localInputDir, dirs)
          THEN /\ Exit(2, <<[kind |-> "inputMissing"]>>)
               /\ UNCHANGED <<outputDir, fileType, fileTypes, resolution, dirs, mkdirFailed>>
          ELSE /\ outputDir' = out
               /\ \E mkdirErr \in BOOLEAN :
                    LET made == ~PathExists(out, dirs) /\ ~mkdirErr
                        mkdirMsg == IF ~PathExists(out, dirs) /\ mkdirErr
                                    THEN <<[kind |-> "mkdirError"]>> ELSE <<>>
                    IN /\ PathExists(out, dirs) => ~mkdirErr
                       /\ mkdirFailed' = (~PathExists(out, dirs) /\ mkdirErr)
                       /\ dirs' = IF made THEN dirs \cup AncestorsOf(out) ELSE dirs
                       /\ IF OutputNested(out, localInputDir)
                          THEN /\ Exit(2, mkdirMsg \o <<[kind |-> "nestedError"]>>)
                               /\ UNCHANGED <<fileType, fileTypes, resolution>>
                          ELSE /\ fileType' = FoldSynonyms(fileType)
                               /\ fileTypes' = NormalizeFileTypes(FoldSynonyms(fileType))
                               /\ resolution' = NormalizeResolution(resolution)
                               /\ IF ~Contains(NormalizeResolution(resolution), sX)
                                  THEN Exit(2, mkdirMsg \o <<[kind |-> "resolutionError"]>>)
                                  ELSE /\ pc' = "list"
                                       /\ stdout' = stdout \o mkdirMsg
                                       /\ UNCHANGED exitCode
    /\ UNCHANGED <<inputDir, recursive, verbose, nImages, extras, noPerm>>
    /\ UNCHANGED <<crashed, enumerated, walkErr, files, next>>
    /\ UNCHANGED taskVars

(***************************************************************************)
(* listFilesToBeCopies                                                     *)
(***************************************************************************)
\* isSupportedFiletype(s): strings.ToLower(s)[1:] is a slice expression that
\* panics on the empty string.
isSupportedFiletype(s) ==
    IF s = <<>> THEN "panic"
    ELSE IF Tail(ToLower(s)) \in supportedImgTypes THEN "yes" ELSE "no"

\* NewFileOperation: os.Exit(2) when a side of the resolution does not parse.
NewFileOperation(o_path, t_path, res) ==
    LET splits == Split(res, sX)
        w == Atoi(splits[1])
        h == Atoi(splits[2])
    IN IF w.err \/ h.err THEN [exit |-> TRUE]
       ELSE [exit |-> FALSE,
             op |-> [originPath |-> o_path, targetPath |-> t_path,
                     targetWidth |-> w.val, targetHeight |-> h.val]]

\* The target path of a walked file.
TargetOf(s) == ReplaceFirst(s, inputDir, outputDir)

\* The callback listFilesToBeCopies hands to filepath.WalkDir.  st holds the
\* files collected so far; the result adds what the callback returned, or
\* how it ended the process.
WalkFn(s, isDir, e, st) ==
    IF e THEN [st EXCEPT !.ret = "err"]
    ELSE IF isDir
    THEN IF s # inputDir /\ ~recursive
         THEN [st EXCEPT !.ret = "SkipDir"]
         ELSE [st EXCEPT !.ret = "nil"]
    ELSE LET sup == isSupportedFiletype(Ext(s))
         IN IF sup = "panic" THEN [st EXCEPT !.ret = "panic"]
            ELSE IF sup = "no" THEN [st EXCEPT !.ret = "nil"]
            ELSE LET fo == NewFileOperation(s, TargetOf(s), resolution)
                 IN IF fo.exit THEN [st EXCEPT !.ret = "exit2"]
                    ELSE [files |-> Append(st.files, fo.op), ret |-> "nil"]

\* filepath.walkDir: call the callback on the entry, then on the sorted
\* entries of a directory, building each child's path with Join.  When the
\* directory cannot be read the callback is called again with the error.
RECURSIVE walkDir(_, _, _, _)
RECURSIVE walkEntries(_, _, _, _, _)
walkDir(path, absPath, isDir, st) ==
    LET r == WalkFn(path, isDir, FALSE, st)
    IN IF r.ret # "nil" \/ ~isDir
       THEN (IF r.ret = "SkipDir" /\ isDir THEN [r EXCEPT !.ret = "nil"] ELSE r)
       ELSE IF ReadDirFails(absPath)
       THEN LET r2 == WalkFn(path, isDir, TRUE, r)
            IN IF r2.ret = "SkipDir" /\ isDir THEN [r2 EXCEPT !.ret = "nil"]
               ELSE IF r2.ret # "nil" THEN r2
               ELSE walkEntries(path, absPath, ReadDir(absPath), 1, r2)
       ELSE walkEntries(path, absPath, ReadDir(absPath), 1, r)

walkEntries(path, absPath, entries, k, st) ==
    IF k > Len(entries) THEN [st EXCEPT !.ret = "nil"]
    ELSE LET d1 == entries[k]
             r == walkDir(Join(path, d1.name), Join(absPath, d1.name), d1.isDir, st)
         IN IF r.ret = "SkipDir" THEN [r EXCEPT !.ret = "nil"]
            ELSE IF r.ret # "nil" THEN r
            ELSE walkEntries(path, absPath, entries, k + 1, r)

\* filepath.WalkDir(root, fn)
WalkDir(root) == walkDir(root, Abs(root), TRUE, [files |-> <<>>, ret |-> "nil"])

\* The error listFilesToBeCopies returns next to the files collected, given
\* whether the walk returned one: the walk's result is dropped and the
\* function ends in "return files, nil".
ListError(walkFailed) == FALSE

\* listFilesToBeCopies, and cmdMain's test of the error it returns.
ListFiles ==
    /\ pc = "list"
    /\ enumerated' = TRUE
    /\ LET r == WalkDir(inputDir)
       IN IF r.ret = "panic"
          THEN /\ Exit(2, <<[kind |-> "panic"]>>)
               /\ crashed' = TRUE
               /\ UNCHANGED <<files, walkErr>>
          ELSE IF r.ret = "exit2"
          THEN /\ Exit(2, <<[kind |-> "parseError"]>>)
               /\ UNCHANGED <<crashed, files, walkErr>>
          ELSE /\ walkErr' = (r.ret = "err")
               /\ IF ListError(r.ret = "err")
                  THEN /\ Exit(2, <<[kind |-> "enumerateError"]>>)
                       /\ UNCHANGED <<crashed, files>>
                  ELSE /\ files' = r.files
                       /\ pc' = "check"
                       /\ UNCHANGED <<crashed, exitCode, stdout>>
    /\ UNCHANGED <<inputVars, fsVars, mkdirFailed, next>>
    /\ UNCHANGED taskVars

(***************************************************************************)
(* cmdMain after the enumeration                                           *)
(***************************************************************************)
\* An empty list treated as an error.
CheckExitAsError(fs) == IF Len(fs) = 0 THEN 2 ELSE -1

\* cmdMain's decision on the list: os.Exit(0) when it is empty, -1 for no
\* exit otherwise.
CheckExit(fs) == IF Len(fs) = 0 THEN 0 ELSE -1

\* For each operation the directory processImage makes for it:
\* filepath.Dir(fo.targetPath), resolved against the working directory.  It
\* depends on the operation alone, so it is worked out once for the list.
TargetDirs(fs) == [k \in 1..Len(fs) |-> Abs(Dir(fs[k].targetPath))]

\* cmdMain: exit 0 on an empty list, else enter copyFilesWithProgress, which
\* creates the bar, the empty errs slice and the WaitGroup.
CmdMainCheck ==
    /\ pc = "check"
    /\ IF CheckExit(files) # -1
       THEN /\ Exit(CheckExit(files), <<[kind |-> "noFiles"]>>)
            /\ UNCHANGED taskVars
       ELSE /\ pc' = "launch"
            /\ wg' = 0
            /\ bar' = 0
            /\ errs' = <<>>
            /\ tpc' = [i \in 1..Len(files) |-> "idle"]
            /\ targ' = [i \in 1..Len(files) |-> 0]
            /\ tsnap' = [i \in 1..Len(files) |-> <<>>]
            /\ tdir' = TargetDirs(files)
            /\ tmk' = [i \in 1..Len(files) |-> "none"]
            /\ runs' = [i \in 1..Len(files) |-> 0]
            /\ adds' = [i \in 1..Len(files) |-> 0]
            /\ failed' = {}
            /\ UNCHANGED <<exitCode, stdout>>
    /\ UNCHANGED <<inputVars, fsVars, crashed, enumerated, walkErr, mkdirFailed, files, next>>

(***************************************************************************)
(* copyFilesWithProgress                                                   *)
(***************************************************************************)
\* The goroutine reading the loop variable it captured, after the loop ended.
TaskOperandLoopVar(i, n) == n

\* The operation the i-th goroutine works on: the loop passes f as the
\* argument of the function literal, so it is the i-th of the n operations.
TaskOperand(i, n) == i

\* bar.Add(1) placed after the error return instead of deferred.
BarDeltaOnSuccessOnly(err) == IF err THEN 0 ELSE 1

\* What the deferred bar.Add(1) adds, given whether processImage failed.
BarDelta(err) == 1

\* wg.Done() placed after the error return instead of deferred.
WgAfterDoneOnSuccessOnly(w, err) == IF err THEN w ELSE w - 1

\* The WaitGroup counter after the deferred wg.Done().
WgAfterDone(w, err) == w - 1

\* A dispatcher that does not wait.
WaitReturnsAtOnce(w) == TRUE

\* wg.Wait() returns when the counter is zero.
WaitReturns(w) == w = 0

\* The summary: the failure count when errs is not empty, then every
\* message when verbose is set.
SummaryLines(es, v) ==
    (IF Len(es) > 0 THEN <<[kind |-> "failCount", n |-> Len(es)]>> ELSE <<>>)
    \o (IF v THEN [k \in 1..Len(es) |-> [kind |-> "failMsg", op |-> es[k]]] ELSE <<>>)

\* One iteration of the launch loop: wg.Add(1) and the go statement.
Launch ==
    /\ pc = "launch"
    /\ next < Len(files)
    /\ LET i == next + 1
       IN /\ next' = i
          /\ wg' = wg + 1
          /\ tpc' = [tpc EXCEPT ![i] = "process"]
          /\ targ' = [targ EXCEPT ![i] = TaskOperand(i, Len(files))]
          /\ pc' = IF i = Len(files) THEN "wait" ELSE "launch"
    /\ UNCHANGED <<inputVars, fsVars>>
    /\ UNCHANGED <<exitCode, crashed, enumerated, walkErr, mkdirFailed, files, stdout>>
    /\ UNCHANGED <<bar, errs, tsnap, tdir, tmk, runs, adds, failed>>

\* The directory processImage makes in task i.
DirOf(i) == tdir[targ[i]]

\* os.ModeDir, the permission argument of processImage's os.MkdirAll: the
\* file mode 1 << 31, which has the directory type bit and no permission bit.
ModeDir == [type |-> "d", perm |-> 0]

\* fs.FileMode.Perm: the nine permission bits of a mode.
PermBits(mode) == mode.perm % 512

\* The owner may create files in a directory of these permission bits: the
\* write and search bits are set.  (The process runs as an ordinary user of
\* a Unix system.)
OwnerCanWrite(perm) == ((perm \div 64) % 8) \in {3, 7}

\* os.MkdirAll(d, perm) once its Stat found d missing: nil when d has
\* appeared meanwhile; else it makes the missing directories from the top,
\* which fails inside a directory the owner cannot write into, the one it
\* has just made included.
MkdirAllMissing(d, perm, ds, np) ==
    IF d \in ds THEN [res |-> "raced", dirs |-> ds, noPerm |-> np]
    ELSE LET missing == AncestorsOf(d) \ ds
             top == CHOOSE a \in missing : \A c \in missing : Len(a) <= Len(c)
             parent == CHOOSE a \in AncestorsOf(top) \ {top} :
                           \A c \in AncestorsOf(top) \ {top} : Len(c) <= Len(a)
         IN IF parent \in np THEN [res |-> "error", dirs |-> ds, noPerm |-> np]
            ELSE IF OwnerCanWrite(PermBits(perm))
            THEN [res |-> "created", dirs |-> ds \cup missing, noPerm |-> np]
            ELSE [res |-> IF top = d THEN "created" ELSE "error",
                  dirs |-> ds \cup {top}, noPerm |-> np \cup {top}]

\* imaging.Save into directory d fails: always when the owner cannot write
\* into d, and otherwise when the encoder or the disk fails (err).
SaveFails(d, np, err) == d \in np \/ err

\* processImage(fo) in task i: imaging.Open fails or gives the image that is
\* resized; the Stat that starts os.MkdirAll finds the target's directory, and
\* then the image is saved, or finds it missing, and then the task goes on in
\* MkdirAll.
ProcessImage(i) ==
    /\ tpc[i] = "process"
    /\ runs' = [runs EXCEPT ![targ[i]] = @ + 1]
    /\ \E openErr \in BOOLEAN, saveErr \in BOOLEAN :
         LET found == DirOf(i) \in dirs
             err == openErr \/ (found /\ SaveFails(DirOf(i), noPerm, saveErr))
         IN /\ failed' = IF err THEN failed \cup {i} ELSE failed
            /\ tpc' = [tpc EXCEPT ![i] = IF err THEN "appendRead"
                                         ELSE IF found THEN "barAdd"
                                         ELSE "mkdir"]
    /\ UNCHANGED <<inputVars, fsVars, mainVars>>
    /\ UNCHANGED <<wg, bar, errs, targ, tdir, tsnap, tmk, adds>>

\* The rest of processImage in a task whose Stat found the directory missing:
\* os.MkdirAll makes it, and on success the image is saved into it.
MkdirAll(i) ==
    /\ tpc[i] = "mkdir"
    /\ \E saveErr \in BOOLEAN :
         LET r == MkdirAllMissing(DirOf(i), ModeDir, dirs, noPerm)
             err == r.res = "error" \/ SaveFails(DirOf(i), r.noPerm, saveErr)
         IN /\ dirs' = r.dirs
            /\ noPerm' = r.noPerm
            /\ tmk' = [tmk EXCEPT ![i] = r.res]
            /\ failed' = IF err THEN failed \cup {i} ELSE failed
            /\ tpc' = [tpc EXCEPT ![i] = IF err THEN "appendRead" ELSE "barAdd"]
    /\ UNCHANGED <<inputVars, nImages, extras, mainVars>>
    /\ UNCHANGED <<wg, bar, errs, targ, tdir, tsnap, runs, adds>>

\* errs = append(errs, ...) is not synchronised: the task reads the slice ...
AppendRead(i) ==
    /\ tpc[i] = "appendRead"
    /\ tsnap' = [tsnap EXCEPT ![i] = errs]
    /\ tpc' = [tpc EXCEPT ![i] = "appendWrite"]
    /\ UNCHANGED <<inputVars, fsVars, mainVars>>
    /\ UNCHANGED <<wg, bar, errs, targ, tdir, tmk, runs, adds, failed>>

\* ... and later stores the slice it read with its message added.
AppendWrite(i) ==
    /\ tpc[i] = "appendWrite"
    /\ errs' = Append(tsnap[i], targ[i])
    /\ tpc' = [tpc EXCEPT ![i] = "barAdd"]
    /\ UNCHANGED <<inputVars, fsVars, mainVars>>
    /\ UNCHANGED <<wg, bar, targ, tdir, tmk, tsnap, runs, adds, failed>>

\* The deferred bar.Add(1); the bar takes its own lock.
BarAdd(i) ==
    /\ tpc[i] = "barAdd"
    /\ bar' = bar + BarDelta(i \in failed)
    /\ adds' = [adds EXCEPT ![i] = @ + BarDelta(i \in failed)]
    /\ tpc' = [tpc EXCEPT ![i] = "wgDone"]
    /\ UNCHANGED <<inputVars, fsVars, mainVars>>
    /\ UNCHANGED <<wg, errs, targ, tdir, tmk, tsnap, runs, failed>>

\* The deferred wg.Done(), the last thing the task does.
WgDone(i) ==
    /\ tpc[i] = "wgDone"
    /\ wg' = WgAfterDone(wg, i \in failed)
    /\ tpc' = [tpc EXCEPT ![i] = "done"]
    /\ UNCHANGED <<inputVars, fsVars, mainVars>>
    /\ UNCHANGED <<bar, errs, targ, tdir, tmk, tsnap, runs, adds, failed>>

\* wg.Wait()
Wait ==
    /\ pc = "wait"
    /\ WaitReturns(wg)
    /\ pc' = "summary"
    /\ UNCHANGED <<inputVars, fsVars>>
    /\ UNCHANGED <<exitCode, crashed, enumerated, walkErr, mkdirFailed, files, next, stdout>>
    /\ UNCHANGED taskVars

\* The prints after the join; cmdMain then returns and the process ends.
Summary ==
    /\ pc = "summary"
    /\ Exit(0, SummaryLines(errs, verbose))
    /\ UNCHANGED <<inputVars, fsVars>>
    /\ UNCHANGED <<crashed, enumerated, walkErr, mkdirFailed, files, next>>
    /\ UNCHANGED taskVars

Tasks == DOMAIN tpc

Task(i) ==
    /\ i \in Tasks
    /\ \/ ProcessImage(i)
       \/ MkdirAll(i)
       \/ AppendRead(i)
       \/ AppendWrite(i)
       \/ BarAdd(i)
       \/ WgDone(i)

(***************************************************************************)
(* Specification                                                           *)
(***************************************************************************)
Init ==
    /\ inputDir \in InputDirFlags
    /\ outputDir \in OutputDirFlags
    /\ recursive \in BOOLEAN
    /\ verbose \in BOOLEAN
    /\ fileType \in FileTypeFlags
    /\ fileTypes = <<>>
    /\ resolution \in ResolutionFlags
    /\ nImages \in 0..MaxImages
    /\ extras \in SUBSET ExtraEntries
    /\ \E outExists \in BOOLEAN :
         dirs = AncestorsOf(TreeRoot)
                \cup (IF "s" \in extras THEN {SubDirPath} ELSE {})
                \cup (IF outExists THEN AncestorsOf(Abs(outputDir)) ELSE {})
    /\ noPerm = {}
    /\ pc = "validate"
    /\ exitCode = -1
    /\ crashed = FALSE
    /\ enumerated = FALSE
    /\ walkErr = FALSE
    /\ mkdirFailed = FALSE
    /\ files = <<>>
    /\ next = 0
    /\ wg = 0
    /\ bar = 0
    /\ errs = <<>>
    /\ tpc = <<>>
    /\ targ = <<>>
    /\ tsnap = <<>>
    /\ tdir = <<>>
    /\ tmk = <<>>
    /\ runs = <<>>
    /\ adds = <<>>
    /\ failed = {}
    /\ stdout = <<>>

Next ==
    \/ ValidateFlags
    \/ ListFiles
    \/ CmdMainCheck
    \/ Launch
    \/ Wait
    \/ Summary
    \/ \E i \in Tasks : ProcessImage(i)
    \/ \E i \in Tasks : MkdirAll(i)
    \/ \E i \in Tasks : AppendRead(i)
    \/ \E i \in Tasks : AppendWrite(i)
    \/ \E i \in Tasks : BarAdd(i)
    \/ \E i \in Tasks : WgDone(i)

Spec == Init /\ [][Next]_vars

(***************************************************************************)
(* copyFilesWithProgress on its own                                        *)
(***************************************************************************)
\* The run at the call of copyFilesWithProgress, for an input tree /w/a that
\* holds n images and nothing else, directly under the root or all in the
\* sub-directory s, an output directory /w/o that exists and the resolution
\* 2x3.
DispatchFiles(n, sub) ==
    [k \in 1..n |->
        NewFileOperation(Join(Join(TreeRoot, sub), ImageName(k)),
                         ReplaceFirst(Join(Join(TreeRoot, sub), ImageName(k)), TreeRoot,
                                      <<"/", "w", "/", "o">>),
                         <<"2", "x", "3">>).op]

DispatchInit ==
    /\ inputDir = TreeRoot
    /\ outputDir = <<"/", "w", "/", "o">>
    /\ extras \in {{}, {"d"}}
    /\ recursive = ("d" \in extras)
    /\ verbose \in BOOLEAN
    /\ fileType = <<"p", "n", "g", ",", "j", "p", "g">>
    /\ fileTypes = NormalizeFileTypes(fileType)
    /\ resolution = <<"2", "x", "3">>
    /\ nImages \in 1..(IF "d" \in extras THEN MaxSubOps ELSE MaxOps)
    /\ dirs = AncestorsOf(TreeRoot) \cup AncestorsOf(outputDir)
              \cup (IF "d" \in extras THEN {SubDirPath} ELSE {})
    /\ noPerm = {}
    /\ pc = "launch"
    /\ exitCode = -1
    /\ crashed = FALSE
    /\ enumerated = TRUE
    /\ walkErr = FALSE
    /\ mkdirFailed = FALSE
    /\ files = DispatchFiles(nImages, IF "d" \in extras THEN <<"s">> ELSE <<>>)
    /\ next = 0
    /\ wg = 0
    /\ bar = 0
    /\ errs = <<>>
    /\ tpc = [i \in 1..nImages |-> "idle"]
    /\ targ = [i \in 1..nImages |-> 0]
    /\ tsnap = [i \in 1..nImages |-> <<>>]
    /\ tdir = TargetDirs(files)
    /\ tmk = [i \in 1..nImages |-> "none"]
    /\ runs = [i \in 1..nImages |-> 0]
    /\ adds = [i \in 1..nImages |-> 0]
    /\ failed = {}
    /\ stdout = <<>>

DispatchNext ==
    \/ Launch
    \/ Wait
    \/ Summary
    \/ \E i \in Tasks : ProcessImage(i)
    \/ \E i \in Tasks : MkdirAll(i)
    \/ \E i \in Tasks : AppendRead(i)
    \/ \E i \in Tasks : AppendWrite(i)
    \/ \E i \in Tasks : BarAdd(i)
    \/ \E i \in Tasks : WgDone(i)

DispatchSpec == DispatchInit /\ [][DispatchNext]_vars

\* The Go scheduler runs every runnable goroutine: the main goroutine and
\* each launched task keep taking their steps.
DispatchFairSpec ==
    /\ DispatchSpec
    /\ WF_vars(Launch \/ Wait \/ Summary)
    /\ \A i \in 1..MaxOps : WF_vars(Task(i))

(***************************************************************************)
(* Properties                                                              *)
(***************************************************************************)
\* wg.Wait() has returned in copyFilesWithProgress.
Joined == pc = "summary" \/ (pc = "exited" /\ next > 0)

\* The walk ended and listFilesToBeCopies returned its list.
Listed == enumerated /\ (pc = "exited" => exitCode = 0)

\* The lines copyFilesWithProgress prints.
DiagnosticLines == {k \in 1..Len(stdout) : stdout[k].kind \in {"failCount", "failMsg"}}

\* p is q or lies under q, for cleaned absolute paths.
EqualOrUnder(p, q) ==
    \/ p = q
    \/ /\ Len(p) > Len(q)
       /\ SubSeq(p, 1, Len(q)) = q
       /\ p[Len(q) + 1] = "/"

\* The files of the input tree as the walk names them: those directly under
\* the root, and those of the sub-directory.
RootFiles ==
    {Join(inputDir, ReadDir(TreeRoot)[k].name) :
        k \in {j \in 1..Len(ReadDir(TreeRoot)) : ~ReadDir(TreeRoot)[j].isDir}}
SubDirFiles ==
    {Join(Join(inputDir, <<"s">>), ReadDir(SubDirPath)[k].name) :
        k \in 1..Len(ReadDir(SubDirPath))}
Origins == {files[k].originPath : k \in 1..Len(files)}

\* C1: when the join returns, the error sequence holds exactly one message
\* per failed operation: no message is lost or overwritten.
C1_NoMessageLost == Joined => Len(errs) = Cardinality(failed)

\* C2: every task increments the progress counter exactly once, whether its
\* operation succeeded or failed, and the counter equals the number of
\* operations when the join returns.
C2_ProgressCountsEveryTask ==
    /\ \A i \in Tasks :
         /\ adds[i] <= 1
         /\ tpc[i] \in {"wgDone", "done"} => adds[i] = 1
    /\ Joined => bar = Len(files) /\ \A i \in Tasks : adds[i] = 1

C2_Witness ==
    /\ Joined
    /\ failed # {}
    /\ failed # Tasks
    /\ bar = Len(files)

\* C3: nothing of the summary is printed, and the summary phase is not
\* entered, before every launched task has run its operation, made its
\* progress increment and signalled completion.
C3_SummaryAfterJoin ==
    (DiagnosticLines # {} \/ Joined) =>
        /\ next = Len(files)
        /\ wg = 0
        /\ \A i \in Tasks : tpc[i] = "done" /\ runs[targ[i]] >= 1 /\ adds[i] = 1

C3_Witness ==
    /\ pc = "exited"
    /\ \E k \in DiagnosticLines : stdout[k].kind = "failMsg"
    /\ Len(files) > 1

\* C4: every planned operation is executed by exactly one task exactly once,
\* and a failing task neither ends the process nor keeps another task from
\* running to completion.
C4_EachOperationOnce ==
    /\ \A k \in 1..Len(runs) : runs[k] <= 1
    /\ \A i, j \in Tasks :
         (i # j /\ tpc[i] # "idle" /\ tpc[j] # "idle") => targ[i] # targ[j]
    /\ pc \in {"launch", "wait", "summary"} => exitCode = -1 /\ ~crashed
    /\ Joined => /\ \A k \in 1..Len(files) : runs[k] = 1
                 /\ \A i \in Tasks : tpc[i] = "done"

C4_Witness ==
    /\ Joined
    /\ Len(files) > 1
    /\ failed # {}
    /\ failed # Tasks
    /\ \A k \in 1..Len(files) : runs[k] = 1

\* C5: under fair scheduling copyFilesWithProgress always returns from its
\* join, whatever the mix of successes and failures; when every operation
\* succeeded it ends with one increment per operation and no error message.
C5_JoinReturns ==
    /\ (pc = "launch") ~> Joined
    /\ [](Joined /\ failed = {} => bar = Len(files) /\ errs = <<>>)

C5_Witness ==
    /\ Joined
    /\ Len(files) > 1
    /\ failed = {}
    /\ bar = Len(files)
    /\ errs = <<>>

\* C6: when the output directory is the input directory or lies under it,
\* validateFlags ends the process with exit code 2 before anything is
\* enumerated or dispatched.
C6_NestedOutputRejected ==
    (pc # "validate" /\ EqualOrUnder(Abs(outputDir), Abs(inputDir))) =>
        /\ pc = "exited"
        /\ exitCode = 2
        /\ ~enumerated
        /\ files = <<>>
        /\ next = 0

C6_Witness ==
    /\ pc = "exited"
    /\ exitCode = 2
    /\ Abs(outputDir) # Abs(inputDir)
    /\ EqualOrUnder(Abs(outputDir), Abs(inputDir))
    /\ stdout # <<>>
    /\ stdout[Len(stdout)].kind = "nestedError"

\* C7: when creating the absent output directory fails, the process ends
\* with a non-zero exit code and neither enumerates nor resizes anything.
C7_MkdirFailureFatal ==
    mkdirFailed =>
        /\ pc = "exited"
        /\ exitCode \notin {-1, 0}
        /\ ~enumerated
        /\ next = 0

\* C8: a walked file yields an operation if and only if its lower-cased
\* extension is one of the requested types and one of the supported types.
C8_RequestedAndSupported ==
    Listed =>
        \A f \in RootFiles \cup (IF recursive THEN SubDirFiles ELSE {}) :
            f \in Origins <=>
                /\ \E k \in 1..Len(fileTypes) : fileTypes[k] = ToLower(Ext(f))
                /\ Ext(f) # <<>>
                /\ Tail(ToLower(Ext(f))) \in supportedImgTypes

\* C9: for every tree the enumeration yields exactly the filter-passing
\* files directly under the root when recursion is off, and those of every
\* depth when it is on.
C9_ExactlyTheFilesInScope ==
    (enumerated /\ \A k \in 1..Len(stdout) : stdout[k].kind # "parseError") =>
        /\ ~crashed
        /\ Origins =
             {f \in RootFiles \cup (IF recursive THEN SubDirFiles ELSE {}) :
                 Ext(f) # <<>> /\ Tail(ToLower(Ext(f))) \in supportedImgTypes}

\* C10: every operation's target path is the output root followed by the
\* source's path relative to the input root.
C10_TargetUnderOutputRoot ==
    Listed =>
        \A k \in 1..Len(files) :
            files[k].targetPath =
                outputDir \o SubSeq(Abs(files[k].originPath),
                                    Len(Abs(inputDir)) + 1,
                                    Len(Abs(files[k].originPath)))

\* C11: when the walk hits an entry it cannot read, the run ends with exit
\* code 2 and nothing is dispatched: a partial list is never processed.
C11_TraversalErrorFatal ==
    walkErr =>
        /\ pc = "exited"
        /\ exitCode = 2
        /\ next = 0
        /\ tpc = <<>>

\* r has the form <integer>x<integer>.
WellFormedResolution(r) ==
    LET parts == Split(r, sX)
    IN Len(parts) = 2 /\ ~Atoi(parts[1]).err /\ ~Atoi(parts[2]).err

\* C12: a resolution that is not <integer>x<integer> makes the run end with
\* exit code 2 before any resize starts, however many files match; a
\* well-formed one gives every operation its width and height.
C12_MalformedResolutionFatal ==
    LET r == NormalizeResolution(resolution)
    IN /\ ~WellFormedResolution(r) =>
            /\ tpc = <<>>
            /\ next = 0
            /\ pc = "exited" => exitCode = 2
       /\ WellFormedResolution(r) =>
            \A k \in 1..Len(files) :
                /\ files[k].targetWidth = Atoi(Split(r, sX)[1]).val
                /\ files[k].targetHeight = Atoi(Split(r, sX)[2]).val

\* C13: every operation that reaches the dispatcher has a width and a
\* height of at least 1.
C13_PositiveDimensions ==
    \A k \in 1..Len(files) :
        files[k].targetWidth >= 1 /\ files[k].targetHeight >= 1

\* C14: after the join the failure count is printed when an operation
\* failed and equals the number of failed operations; with verbose the
\* message of every failed operation is printed exactly once, in the order
\* of the appends; without verbose no message is printed.
C14_SummaryMatchesFailures ==
    (pc = "exited" /\ next > 0) =>
        LET IsMsg(l) == l.kind = "failMsg"
            counts == {k \in 1..Len(stdout) : stdout[k].kind = "failCount"}
            msgs == SelectSeq(stdout, IsMsg)
        IN /\ failed = {} => counts = {}
           /\ failed # {} =>
                /\ Cardinality(counts) = 1
                /\ \A k \in counts : stdout[k].n = Cardinality(failed)
           /\ ~verbose => msgs = <<>>
           /\ verbose =>
                /\ [k \in 1..Len(msgs) |-> msgs[k].op] = errs
                /\ Len(msgs) = Cardinality(failed)
                /\ {msgs[k].op : k \in 1..Len(msgs)} = {targ[i] : i \in failed}

\* The messages of the exits on a validation or enumeration error.
FatalKinds ==
    {"inputMissing", "nestedError", "resolutionError", "parseError", "panic",
     "enumerateError"}

C16_ConcurrentMkdirUsable ==
    \A i \in DOMAIN tpc :
        /\ tmk[i] = "error" => DirOf(i) \notin dirs
        /\ (tmk[i] \in {"created", "raced"}
            /\ \E j \in DOMAIN tpc : j # i /\ targ[j] # 0 /\ DirOf(j) = DirOf(i)) =>
               /\ DirOf(i) \in dirs
               /\ DirOf(i) \notin noPerm

\* C17: validateFlags refuses the pair of directories for nesting only when
\* the output directory is the input directory or lies under it.
C17_NestingRejectsOnlyDescendants ==
    (pc = "exited" /\ stdout # <<>> /\ stdout[Len(stdout)].kind = "nestedError") =>
        EqualOrUnder(Abs(outputDir), Abs(inputDir))

\* C18: after validateFlags accepted the flags, no operation's target is its
\* own source or any other file of the input tree, however the input
\* directory was spelled.
C18_TargetNeverASource ==
    Listed =>
        \A k \in 1..Len(files) :
            /\ Abs(files[k].targetPath) # Abs(files[k].originPath)
            /\ Abs(files[k].targetPath) \notin {Abs(f) : f \in RootFiles \cup SubDirFiles}

\* C19: listFilesToBeCopies never crashes: a file without extension is left
\* out of the list and the walk goes on.
C19_ExtensionlessFileSkipped ==
    enumerated =>
        /\ ~crashed
        /\ \A k \in 1..Len(stdout) : stdout[k].kind # "panic"
        /\ \A k \in 1..Len(files) : Ext(files[k].originPath) # <<>>

====
